---- MODULE Spec2Model ----
(***************************************************************************)
(* pycassa/pool.py: QueuePool, ConnectionWrapper and the Pool base class   *)
(* as a state machine.  Application threads call get(), a retriable RPC,   *)
(* return_conn() and dispose(); every action is one step of one thread     *)
(* between two points where another thread can observe or change the       *)
(* shared state (the idle queue, the overflow counter, the overflow lock). *)
(***************************************************************************)
EXTENDS Integers, Sequences, FiniteSets, TLC

\* ---------------------------------------------------------------- bounds
MaxWrappers == 5        \* ConnectionWrapper objects ever created
MaxOps      == 2        \* RPC calls the application starts on one wrapper
NumServers  == 2        \* len(server_list), at most
MaxDisposes == 1        \* calls of dispose()
MaxCalls    == 5        \* calls the application threads make in all
MaxCallsDeep == 6       \* the same, of a pool without retries
MaxListLen  == 3        \* len of the list given to set_server_list, at most
MaxRotorCalls == 6      \* calls of _get_next_server after one set_server_list

Threads == {"t1", "t2"}
WIds    == 1..MaxWrappers

\* ------------------------------------------------- ConnectionWrapper state
IN_QUEUE    == "IN_QUEUE"
CHECKED_OUT == "CHECKED_OUT"
DISPOSED    == "DISPOSED"
NOT_CREATED == "NOT_CREATED"    \* no such object yet

VARIABLES
    cfg,        \* constructor arguments of the QueuePool
    q,          \* self._q: the idle queue, head first
    overflow,   \* self._overflow
    olock,      \* holder of self._overflow_lock ("" when free or absent)
    st,         \* wrapper -> _state
    opc,        \* wrapper -> operation_count
    rc,         \* wrapper -> _retry_count
    tp,         \* wrapper -> the transport it currently uses
    ncl,        \* transport -> number of close() calls made on it
    wcl,        \* wrapper -> number of close() calls made through it
    server,     \* wrapper -> self.server, the server it reports as bound
    peer,       \* transport -> the server it is connected to
    lpos,       \* self._list_position (the pool's calls keep it modulo
                \* len(self.server_list))
    given,      \* the list last passed to set_server_list
    server_list,\* self.server_list
    served,     \* what _get_next_server returned since set_server_list
    rres,       \* result of the last set_server_list or _get_next_server
    ndisp,      \* number of dispose() calls so far
    ncalls,     \* number of application calls so far
    tl,         \* thread -> self._tlocal.current
    pc,         \* thread -> position in the call in progress
    held,       \* thread -> the wrapper the application holds (0: none)
    caller,     \* thread -> who called the get() in progress
    out,        \* thread -> the call in progress: result and events emitted
    mark        \* thread -> what status() showed as its last get() began

vars == <<cfg, q, overflow, olock, st, opc, rc, tp, ncl, wcl, server, peer, lpos,
          given, server_list, served, rres,
          ndisp, ncalls, tl, pc, held, caller, out, mark>>

\* ------------------------------------------------------------ small helpers
Rep(e, n) == [i \in 1..n |-> e]
Count(s, e) == Cardinality({i \in 1..Len(s) : s[i] = e})
InQ(w) == \E i \in 1..Len(q) : q[i] = w

NoAtt   == <<>>
NoOut   == [op |-> "none", res |-> "none", w |-> 0, evs |-> <<>>, att |-> NoAtt,
            fails |-> 0, cc |-> <<>>]
TLUnset == [k |-> "unset", w |-> 0, live |-> FALSE]
TLNone  == [k |-> "none",  w |-> 0, live |-> FALSE]
TLRef(w, b) == [k |-> "ref", w |-> w, live |-> b]
TLDead  == TLRef(0, FALSE)      \* a weak reference whose object is gone
NoMark  == [set |-> FALSE, ci |-> 0, ov |-> 0, nout |-> 0, src |-> "none"]

\* ------------------------------------------------------------ QueuePool.__init__
\* self._overflow_enabled = max_overflow > 0
_overflow_enabled == cfg.max_overflow > 0
\* self._overflow_lock = self._overflow_enabled and threading.Lock() or None
HasLock == _overflow_enabled
\* self._q = pool_queue.Queue(pool_size)
QMaxSize_plus1 == cfg.pool_size + 1     \* a queue one slot too large
QMaxSize == cfg.pool_size

\* ------------------------------------------------------------ status accessors
size       == cfg.pool_size
checkedin  == Len(q)
checkedout == cfg.pool_size - Len(q) + overflow

\* ------------------------------------------- ConnectionWrapper state machine
\* Each returns the state after the call and whether InvalidRequestError
\* was raised.  Tried(...) is the record of one such call on wrapper w, kept in
\* the call record of the thread that made it.
Tried(name, w, s, r) == <<name, w, s, r.st, r.err>>

\* _checkin without its guard.
_checkin_unguarded(s) == [err |-> FALSE, st |-> IN_QUEUE]

_checkin(s) ==
    IF s # CHECKED_OUT THEN [err |-> TRUE, st |-> s]
                       ELSE [err |-> FALSE, st |-> IN_QUEUE]

\* _checkout that checks the state and forgets to set it.
_checkout_unset(s) == [err |-> s # IN_QUEUE, st |-> s]

_checkout(s) ==
    IF s # IN_QUEUE THEN [err |-> TRUE, st |-> s]
                    ELSE [err |-> FALSE, st |-> CHECKED_OUT]

_in_queue_never(s) == FALSE

_in_queue(s) == s = IN_QUEUE

_dispose_wrapper(s) ==
    IF s = DISPOSED THEN [err |-> TRUE, st |-> s]
                    ELSE [err |-> FALSE, st |-> DISPOSED]

\* _replace: self._state = ConnectionWrapper._CHECKED_OUT
_replace(s) == CHECKED_OUT

\* ------------------------------------------------------------ the idle queue
\* pool_queue.Queue: a bounded FIFO; put(item, False) raises Full when the
\* queue holds maxsize items, get raises Empty when it holds none.
QFull(qq)  == Len(qq) >= QMaxSize
QEmpty(qq) == Len(qq) = 0

\* ------------------------------------------------------------ configurations
\* servers is len(server_list); asserts tells whether the interpreter executes
\* assert statements (it does not under python -O).
Config(ps, mo, pf, tloc, mr, rcy) ==
    [pool_size |-> ps, max_overflow |-> mo, prefill |-> pf,
     use_threadlocal |-> tloc, max_retries |-> mr, recycle |-> rcy,
     servers |-> 1, asserts |-> TRUE]

OnServers(c, n) == [c EXCEPT !.servers = n]
Optimized(c) == [c EXCEPT !.asserts = FALSE]

\* Lines 601-605: the constructor's assertions on its arguments.
ArgsAsserted(c) ==
    /\ c.pool_size >= 0
    /\ c.max_overflow >= 0
    /\ c.max_retries >= 0
    /\ c.recycle > 0

\* QueuePool(...) returned a pool rather than raising AssertionError.
Constructed == cfg.asserts => ArgsAsserted(cfg)

\* MaxAttempts, trying every server once.
MaxAttempts_once == cfg.servers

\* _create_connection gives up after 2 * len(server_list) failed attempts
MaxAttempts == 2 * cfg.servers

\* The state after QueuePool.__init__ with arguments c, but for the server
\* list.
InitPool(c) ==
    LET made == c.asserts => ArgsAsserted(c)
        n    == IF made /\ c.prefill THEN c.pool_size ELSE 0 IN
    /\ cfg = c
    /\ q = [i \in 1..n |-> i]
    /\ overflow = IF c.prefill THEN 0 ELSE 0 - c.pool_size
    /\ wcl = [w \in WIds |-> 0]
    /\ server = [w \in WIds |-> IF w <= n THEN (w - 1) % c.servers ELSE 0]
    /\ peer = [w \in WIds |-> IF w <= n THEN (w - 1) % c.servers ELSE 0]
    /\ lpos = n % c.servers
    /\ olock = ""
    /\ st = [w \in WIds |-> IF w <= n THEN IN_QUEUE ELSE NOT_CREATED]
    /\ opc = [w \in WIds |-> 0]
    /\ rc = [w \in WIds |-> 0]
    /\ tp = [w \in WIds |-> IF w <= n THEN w ELSE 0]
    /\ ncl = [w \in WIds |-> 0]
    /\ ndisp = 0
    /\ ncalls = 0
    /\ tl = [t \in Threads |-> TLUnset]
    /\ pc = [t \in Threads |-> "idle"]
    /\ held = [t \in Threads |-> 0]
    /\ caller = [t \in Threads |-> "app"]
    /\ out = [t \in Threads |-> NoOut]
    /\ mark = [t \in Threads |-> NoMark]

\* Lines 105-132: set_server_list was given list l and installed list m.
Installed(l, m) ==
    /\ given = l
    /\ server_list = m
    /\ served = <<>>
    /\ rres = "ok"

\* The state after QueuePool.__init__ with arguments c.  The servers of the
\* pool are named by their place in the installed list.
InitWith(c) ==
    /\ InitPool(c)
    /\ Installed([i \in 1..c.servers |-> i - 1], [i \in 1..c.servers |-> i - 1])

\* ------------------------------------------------------------ call bookkeeping
\* The shared objects as one value, so that a handler is a function from the
\* state it finds to the outcomes it can have.
\* cc collects the _create_connection calls of the step.
Heap == [q |-> q, overflow |-> overflow, olock |-> olock, st |-> st,
         opc |-> opc, rc |-> rc, tp |-> tp, ncl |-> ncl, ndisp |-> ndisp,
         ncalls |-> ncalls, mark |-> mark, wcl |-> wcl, server |-> server,
         peer |-> peer, lpos |-> lpos, cc |-> <<>>]

\* An outcome of one step of thread t: the shared objects, t's next position,
\* its call record, its thread-local slot and the caller of its get().
Oc(h, pcv, o, tlv, cal) == [h |-> h, pcv |-> pcv, o |-> o, tlv |-> tlv, cal |-> cal]

\* The call ends: the application receives o.
Ended(h, o, tlv) == Oc(h, "ret", o, tlv, "app")

\* Strong references to wrappers: the idle queue, the wrapper each application
\* thread holds, the wrapper of the call in progress.  The thread-local slot
\* holds a weak reference (line 735).
Roots ==
    ({q[i] : i \in 1..Len(q)} \cup {held[u] : u \in Threads}
       \cup {out[u].w : u \in {x \in Threads : pc[x] # "idle"}}) \ {0}

\* One step of thread t ends in: shared objects h, position pcv, call record o,
\* thread-local slot tlv, caller of get() cal, wrapper held hv.
Commit(t, h, pcv, o, tlv, cal, hv) ==
    /\ q' = h.q
    /\ overflow' = h.overflow
    /\ olock' = h.olock
    /\ st' = h.st
    /\ opc' = h.opc
    /\ rc' = h.rc
    /\ tp' = h.tp
    /\ ncl' = h.ncl
    /\ ndisp' = h.ndisp
    /\ ncalls' = h.ncalls
    /\ mark' = h.mark
    /\ wcl' = h.wcl
    /\ server' = h.server
    /\ peer' = h.peer
    /\ lpos' = h.lpos
    /\ UNCHANGED <<given, server_list, served, rres>>
    /\ pc' = [pc EXCEPT ![t] = pcv]
    /\ out' = [out EXCEPT ![t] = [o EXCEPT !.cc = @ \o h.cc]]
    /\ tl' = [tl EXCEPT ![t] = tlv]
    /\ held' = [held EXCEPT ![t] = hv]
    /\ caller' = [caller EXCEPT ![t] = cal]
    /\ cfg' = cfg

\* The wrappers the application holds: get() returned them and they have not
\* been checked in or disposed since.
HandedOut ==
    {w \in WIds : /\ st[w] = CHECKED_OUT
                  /\ \E u \in Threads :
                        \/ held[u] = w
                        \/ /\ pc[u] = "ret" /\ out[u].op = "get"
                           /\ out[u].res = "ok" /\ out[u].w = w}

\* A pool without retries never fails over: it has fewer behaviours per call
\* and is explored one call deeper.
CallBound == IF cfg.max_retries = 0 THEN MaxCallsDeep ELSE MaxCalls

\* Thread t may start an application call: the call bound is not used up, and,
\* the threads being alike, the first call of all is t1's.
CanCall(t) == Constructed /\ ncalls < CallBound /\ (ncalls = 0 => t = "t1")

\* The shared objects as thread t starts the application call op.  A get()
\* that starts while no other thread is inside a call notes what checkedin(),
\* overflow() and the number of wrappers handed out are.  The note lasts until
\* the thread's return_conn() has ended, and is dropped by any other call of any
\* thread in between.
Called(t, op) ==
    [Heap EXCEPT !.ncalls = @ + 1,
                 !.mark = [u \in Threads |->
                             IF u # t THEN NoMark
                             ELSE IF op = "return" THEN mark[t]
                             ELSE IF op = "get" /\ \A x \in Threads \ {t} : pc[x] = "idle"
                             THEN [set |-> TRUE, ci |-> checkedin, ov |-> overflow,
                                   nout |-> Cardinality(HandedOut), src |-> "none"]
                             ELSE NoMark]]

Apply(t, r) == Commit(t, r.h, r.pcv, r.o, r.tlv, r.cal, held[t])

\* ------------------------------------------------------------ Pool._create_connection
\* Lines 145-158: up to 2 * len(server_list) attempts; each failed attempt emits
\* connection_failed; the first that succeeds returns a wrapper, which
\* ConnectionWrapper.__init__ (353-375) leaves in CHECKED_OUT with both counters
\* at 0 after emitting connection_created.  All failing: AllServersUnavailable.
\* connection_failed is notified with the wrapper (line 450) when an RPC fails
\* and without one (line 155) when a connect fails.
RpcFailed     == "connection_failed"
ConnectFailed == "connection_failed(connect)"

\* The identity of the next wrapper created; its transport has the same one.
FreeW(h) == {w \in WIds : h.st[w] = NOT_CREATED}
NewW(h) == CHOOSE x \in FreeW(h) : \A y \in FreeW(h) : x <= y

\* Lines 134-143: the servers the next n calls of _get_next_server return.
NextServers(h, n) == [i \in 1..n |-> (h.lpos + i - 1) % cfg.servers]

_create_connection(h) ==
    {[ok |-> FALSE, w |-> 0, evs |-> Rep(ConnectFailed, MaxAttempts),
      h |-> [h EXCEPT !.lpos = (@ + MaxAttempts) % cfg.servers,
                      !.cc = Append(@, [ok |-> FALSE,
                                        srvs |-> NextServers(h, MaxAttempts)])]]}
    \cup
    {[ok |-> TRUE,
      h |-> [h EXCEPT !.st[NewW(h)] = CHECKED_OUT, !.tp[NewW(h)] = NewW(h),
                      !.server[NewW(h)] = NextServers(h, f + 1)[f + 1],
                      !.peer[NewW(h)] = NextServers(h, f + 1)[f + 1],
                      !.lpos = (@ + f + 1) % cfg.servers,
                      !.cc = Append(@, [ok |-> TRUE,
                                        srvs |-> NextServers(h, f + 1)])],
      w |-> NewW(h),
      evs |-> Append(Rep(ConnectFailed, f), "connection_created")]
     : f \in IF FreeW(h) # {} THEN 0..(MaxAttempts - 1) ELSE {}}

\* ------------------------------------------------------------ QueuePool._do_get
\* Unlock without lines 730-732: the lock stays with its holder.
Unlock_kept(h) == h

\* lines 730-732: finally, release the overflow lock if there is one
Unlock(h) == [h EXCEPT !.olock = ""]

\* Lines 734-737 once `conn` is c; and, when this get() was called at line 466,
\* ConnectionWrapper._replace (428-442) on the wrapper w of the RPC in progress.
\* The wrapper c is then referenced by nothing but the weak reference in the
\* thread's slot: that reference is dead as soon as the collector has run (at
\* once under reference counting).
CompleteGet(t, h, c, o) ==
    LET o2 == [o EXCEPT !.evs = Append(@, "connection_checked_out")] IN
    IF caller[t] = "app"
    THEN {Ended(h, [o2 EXCEPT !.res = "ok", !.w = c],
                IF cfg.use_threadlocal THEN TLRef(c, TRUE) ELSE tl[t])}
    ELSE LET w  == held[t]
             h2 == [h EXCEPT !.st[w] = _replace(h.st[w]), !.tp[w] = h.tp[c],
                             !.opc[w] = h.opc[c]] IN
         {Oc(h2, "rpc_retry", o2,
             IF cfg.use_threadlocal THEN (IF b THEN TLRef(c, TRUE) ELSE TLDead)
                                    ELSE tl[t], "app")
          : b \in BOOLEAN}

\* self._q.get(...) on a non-empty queue: the head is popped and checked out.
PopGet(t, h, o) ==
    LET c  == Head(h.q)
        r  == _checkout(h.st[c])
        h1 == Unlock([h EXCEPT !.q = Tail(@), !.st[c] = r.st])
        o1 == [o EXCEPT !.att = Append(@, Tried("_checkout", c, h.st[c], r))] IN
    IF r.err
    THEN {Ended(h1, [o1 EXCEPT !.res = "InvalidRequestError"], tl[t])}
    ELSE CompleteGet(t, h1, c, o1)

\* get(), lines 699-707: the thread's cached wrapper, if its weak reference is
\* alive; otherwise on to the queue.
Get(t) ==
    /\ pc[t] = "idle"
    /\ CanCall(t)
    /\ held[t] = 0 \/ cfg.use_threadlocal
    /\ LET o == [NoOut EXCEPT !.op = "get"] IN
       IF cfg.use_threadlocal /\ tl[t].k = "ref" /\ tl[t].live
       THEN Apply(t, Ended(Called(t, "get"), [o EXCEPT !.res = "ok", !.w = tl[t].w],
                           tl[t]))
       ELSE Apply(t, Oc(Called(t, "get"), "g_lock", o, tl[t], "app"))

\* Lines 709-715: take the overflow lock, decide whether to block, try the queue.
GetLock(t) ==
    /\ pc[t] = "g_lock"
    /\ HasLock => olock = ""
    /\ LET block == _overflow_enabled /\ overflow >= cfg.max_overflow
           h     == [Heap EXCEPT !.olock = IF HasLock THEN t ELSE @] IN
       IF ~QEmpty(q)
       THEN \E r \in PopGet(t, h, out[t]) : Apply(t, r)
       ELSE Apply(t, Oc(h, IF block THEN "g_wait" ELSE "g_miss", out[t], tl[t],
                        caller[t]))

\* Line 715, blocked in self._q.get(True, pool_timeout): an item arrives.
GetWaitPop(t) ==
    /\ pc[t] = "g_wait"
    /\ ~QEmpty(q)
    /\ \E r \in PopGet(t, Heap, out[t]) : Apply(t, r)

\* GetTimeout of a queue whose get() waits without a timeout.
GetTimeout_never(t) ==
    /\ pc[t] = "g_wait"
    /\ FALSE
    /\ UNCHANGED vars

\* Line 715: pool_timeout passes with the queue still empty.
GetTimeout(t) ==
    /\ pc[t] = "g_wait"
    /\ QEmpty(q)
    /\ Apply(t, Oc(Heap, "g_miss", out[t], tl[t], caller[t]))

\* Lines 716-723: the Empty handler reads the overflow counter.
\* AtMax, counting the slots of the idle queue as overflow.
AtMax_prefilled(h) == h.overflow + cfg.pool_size >= cfg.max_overflow

AtMax(h) == h.overflow >= cfg.max_overflow

GetMiss(t) ==
    /\ pc[t] = "g_miss"
    /\ IF AtMax(Heap)
       THEN Apply(t, Ended(Unlock(Heap),
                           [out[t] EXCEPT !.res = "NoConnectionAvailable",
                                          !.evs = Append(@, "pool_at_max")], tl[t]))
       ELSE Apply(t, Oc(Heap, "g_create", out[t], tl[t], caller[t]))

\* Line 726: self._overflow += 1
CountOverflow_skipped(h) == h

CountOverflow(h) == [h EXCEPT !.overflow = @ + 1]

\* Lines 724-732: create a connection, then self._overflow += 1.
GetCreate(t) ==
    /\ pc[t] = "g_create"
    /\ \E cr \in _create_connection(Heap) :
         LET o == [out[t] EXCEPT !.evs = @ \o cr.evs] IN
         IF ~cr.ok
         THEN Apply(t, Ended(Unlock(cr.h),
                             [o EXCEPT !.res = "AllServersUnavailable"], tl[t]))
         ELSE \E r \in CompleteGet(t, Unlock(CountOverflow(cr.h)), cr.w, o) :
                 Apply(t, r)

\* ------------------------------------------------------------ the idle queue: put
\* self._q.put(c, False): Full when the queue holds maxsize items; otherwise the
\* item is checked in (ConnectionWrapper._checkin, 387-395) and appended.
QPut(h, c) ==
    LET r == _checkin(h.st[c]) IN
    IF QFull(h.q)
    THEN [full |-> TRUE, err |-> FALSE, h |-> h, att |-> NoAtt]
    ELSE IF r.err
    THEN [full |-> FALSE, err |-> TRUE, h |-> [h EXCEPT !.st[c] = r.st],
          att |-> <<Tried("_checkin", c, h.st[c], r)>>]
    ELSE [full |-> FALSE, err |-> FALSE,
          h |-> [h EXCEPT !.st[c] = r.st, !.q = Append(@, c)],
          att |-> <<Tried("_checkin", c, h.st[c], r)>>]

\* ------------------------------------------------------------ QueuePool._replace_wrapper
\* Lines 648-654: if the queue is not full, create a connection and put it;
\* Full is swallowed, AllServersUnavailable is not.
_replace_wrapper(h) ==
    IF QFull(h.q)
    THEN {[ok |-> TRUE, h |-> h, evs |-> <<>>, att |-> NoAtt]}
    ELSE {IF cr.ok THEN [ok |-> TRUE, h |-> QPut(cr.h, cr.w).h, evs |-> cr.evs,
                         att |-> QPut(cr.h, cr.w).att]
                   ELSE [ok |-> FALSE, h |-> cr.h, evs |-> cr.evs, att |-> NoAtt]
          : cr \in _create_connection(h)}

\* ------------------------------------------------------------ ConnectionWrapper._retry
\* Lines 444-469: one attempt of a retriable RPC on the wrapper the thread holds.
\* The transport call returns, or raises TimedOutException/UnavailableException.
Exceeded_early(n) == cfg.max_retries # -1 /\ n >= cfg.max_retries

Exceeded_late(n) == cfg.max_retries # -1 /\ n > cfg.max_retries + 1

Exceeded(n) == cfg.max_retries # -1 /\ n > cfg.max_retries

Attempt(t, hh, o) ==
    LET w   == held[t]
        h0  == [hh EXCEPT !.opc[w] = @ + 1]
        o1  == [o EXCEPT !.evs = Append(@, RpcFailed), !.fails = @ + 1]
        h1  == [h0 EXCEPT !.rc[w] = @ + 1]
        h2  == [h1 EXCEPT !.ncl[h1.tp[w]] = @ + 1, !.wcl[w] = @ + 1]
        tl2 == IF cfg.use_threadlocal THEN TLNone ELSE tl[t] IN
    {Ended(h0, [o EXCEPT !.res = "ok"], tl[t])}
    \cup
    (IF Exceeded(h1.rc[w])
     THEN {Ended(h1, [o1 EXCEPT !.res = "MaximumRetryException"], tl[t])}
     ELSE {IF rw.ok
           THEN Oc(rw.h, "g_lock", [o1 EXCEPT !.evs = @ \o rw.evs,
                                              !.att = @ \o rw.att], tl2, "retry")
           ELSE Ended(rw.h, [o1 EXCEPT !.evs = @ \o rw.evs,
                                       !.res = "AllServersUnavailable"], tl2)
           : rw \in _replace_wrapper(h2)})

\* Rpc with a retry count that starts at 0 in every call.
Rpc_fresh(t) ==
    /\ pc[t] = "idle"
    /\ held[t] # 0
    /\ opc[held[t]] < MaxOps
    /\ ncl[tp[held[t]]] = 0
    /\ CanCall(t)
    /\ \E r \in Attempt(t, [Called(t, "rpc") EXCEPT !.rc[held[t]] = 0],
                         [NoOut EXCEPT !.op = "rpc", !.w = held[t]]) :
         Apply(t, r)

\* The application calls a retriable RPC on the wrapper it holds.
Rpc(t) ==
    /\ pc[t] = "idle"
    /\ held[t] # 0
    /\ opc[held[t]] < MaxOps
    /\ ncl[tp[held[t]]] = 0
    /\ CanCall(t)
    /\ \E r \in Attempt(t, Called(t, "rpc"),
                         [NoOut EXCEPT !.op = "rpc", !.w = held[t]]) :
         Apply(t, r)

\* Line 467: return new_f(self, *args, **kwargs) after the failover.
RpcRetry(t) ==
    /\ pc[t] = "rpc_retry"
    /\ \E r \in Attempt(t, Heap, out[t]) : Apply(t, r)

\* ------------------------------------------------------------ QueuePool._put_conn
\* Lines 686-696.  k: "ok" (returns conn), "full" (Full raised by put) or "raise".
_put_conn(h, c) ==
    IF cfg.recycle > -1 /\ h.opc[c] > cfg.recycle
    THEN {IF ~cr.ok
          THEN [k |-> "raise", res |-> "AllServersUnavailable", h |-> cr.h,
                evs |-> cr.evs, att |-> NoAtt, conn |-> c]
          ELSE LET d    == _dispose_wrapper(cr.h.st[c])
                   evs1 == Append(cr.evs, "connection_recycled")
                   h1   == [cr.h EXCEPT !.st[c] = d.st, !.ncl[cr.h.tp[c]] = @ + 1,
                                        !.wcl[c] = @ + 1]
                   p    == QPut(h1, cr.w) IN
               IF d.err
               THEN [k |-> "raise", res |-> "InvalidRequestError",
                     h |-> [cr.h EXCEPT !.st[c] = d.st], evs |-> evs1,
                     att |-> <<Tried("_dispose_wrapper", c, cr.h.st[c], d)>>,
                     conn |-> c]
               ELSE [k |-> IF p.full THEN "full" ELSE IF p.err THEN "raise" ELSE "ok",
                     res |-> IF p.err THEN "InvalidRequestError" ELSE "ok",
                     h |-> p.h, evs |-> Append(evs1, "connection_disposed"),
                     att |-> <<Tried("_dispose_wrapper", c, cr.h.st[c], d)>> \o p.att,
                     conn |-> cr.w]
          : cr \in _create_connection(h)}
    ELSE LET p == QPut(h, c) IN
         {[k |-> IF p.full THEN "full" ELSE IF p.err THEN "raise" ELSE "ok",
           res |-> IF p.err THEN "InvalidRequestError" ELSE "ok",
           h |-> p.h, evs |-> <<>>, att |-> p.att, conn |-> c]}

\* ------------------------------------------------------------ QueuePool._do_return_conn
\* Lines 670-677: the Full handler, up to the overflow lock.
FullHandler(h, c, o, tlv) ==
    LET d  == _dispose_wrapper(h.st[c])
        h1 == [h EXCEPT !.st[c] = d.st, !.ncl[h.tp[c]] = @ + 1, !.wcl[c] = @ + 1]
        oa == [o EXCEPT !.att = Append(@, Tried("_dispose_wrapper", c, h.st[c], d))]
        o1 == [oa EXCEPT !.evs = Append(@, "connection_disposed")] IN
    IF _in_queue(h.st[c])
    THEN {Ended(h, [o EXCEPT !.res = "InvalidRequestError",
                             !.att = Append(@, <<"_in_queue", c, h.st[c], h.st[c],
                                                 TRUE>>)], tlv)}
    ELSE IF d.err
    THEN {Ended([h EXCEPT !.st[c] = d.st],
                [oa EXCEPT !.res = "InvalidRequestError"], tlv)}
    ELSE IF ~HasLock
    THEN {Ended([h1 EXCEPT !.overflow = @ - 1],
                [o1 EXCEPT !.res = "ok", !.evs = Append(@, "connection_checked_in")],
                tlv)}
    ELSE {Oc(h1, "r_dec", o1, tlv, "app")}

\* _do_return_conn without line 662: the thread-local slot is kept.
_do_return_conn_kept(t, hh, c0, o) ==
    LET run(c, tlv) ==
          UNION {IF r.k = "ok"
                 THEN {Ended(r.h, [o EXCEPT !.res = "ok", !.att = @ \o r.att,
                                   !.evs = Append(@ \o r.evs, "connection_checked_in")],
                             tlv)}
                 ELSE IF r.k = "raise"
                 THEN {Ended(r.h, [o EXCEPT !.res = r.res, !.evs = @ \o r.evs,
                                            !.att = @ \o r.att], tlv)}
                 ELSE FullHandler(r.h, c, [o EXCEPT !.evs = @ \o r.evs,
                                                    !.att = @ \o r.att], tlv)
                 : r \in _put_conn([hh EXCEPT !.rc[c] = 0], c)} IN
    IF cfg.use_threadlocal
    THEN IF tl[t].k # "ref"
         THEN {Ended(hh, [o EXCEPT !.res = "ok"], tl[t])}
         ELSE IF ~tl[t].live
         THEN {Ended(hh, [o EXCEPT !.res = "AttributeError"], TLNone)}
         ELSE run(tl[t].w, tl[t])
    ELSE run(c0, tl[t])

\* Lines 656-669, then the Full handler.  c0 is the argument.
_do_return_conn(t, hh, c0, o) ==
    LET run(c, tlv) ==
          UNION {IF r.k = "ok"
                 THEN {Ended(r.h, [o EXCEPT !.res = "ok", !.att = @ \o r.att,
                                   !.evs = Append(@ \o r.evs, "connection_checked_in")],
                             tlv)}
                 ELSE IF r.k = "raise"
                 THEN {Ended(r.h, [o EXCEPT !.res = r.res, !.evs = @ \o r.evs,
                                            !.att = @ \o r.att], tlv)}
                 ELSE FullHandler(r.h, c, [o EXCEPT !.evs = @ \o r.evs,
                                                    !.att = @ \o r.att], tlv)
                 : r \in _put_conn([hh EXCEPT !.rc[c] = 0], c)} IN
    IF cfg.use_threadlocal
    THEN IF tl[t].k # "ref"
         THEN {Ended(hh, [o EXCEPT !.res = "ok"], tl[t])}
         ELSE IF ~tl[t].live
         THEN {Ended(hh, [o EXCEPT !.res = "AttributeError"], TLNone)}
         ELSE run(tl[t].w, TLNone)
    ELSE run(c0, tl[t])

\* The application returns the wrapper it holds.
ReturnConn(t) ==
    /\ pc[t] = "idle"
    /\ held[t] # 0
    /\ CanCall(t)
    /\ \E r \in _do_return_conn(t, Called(t, "return"), held[t],
                                [NoOut EXCEPT !.op = "return", !.w = held[t]]) :
         Apply(t, r)

\* ReturnDec without the notification of line 684.
ReturnDec_silent(t) ==
    /\ pc[t] = "r_dec"
    /\ olock = ""
    /\ Apply(t, Ended([Heap EXCEPT !.overflow = @ - 1],
                      [out[t] EXCEPT !.res = "ok"], tl[t]))

\* Lines 678-684: overflow -= 1 under the overflow lock.
ReturnDec(t) ==
    /\ pc[t] = "r_dec"
    /\ olock = ""
    /\ Apply(t, Ended([Heap EXCEPT !.overflow = @ - 1],
                      [out[t] EXCEPT !.res = "ok",
                                     !.evs = Append(@, "connection_checked_in")],
                      tl[t]))

\* The application returns the same wrapper a second time, before the wrapper
\* has been handed out again.
ReturnAgain(t) ==
    /\ pc[t] = "ret"
    /\ out[t].op = "return"
    /\ out[t].res = "ok"
    /\ cfg.use_threadlocal \/ st[out[t].w] # CHECKED_OUT
    /\ CanCall(t)
    /\ \E r \in _do_return_conn(t, Called(t, "return2"), out[t].w,
                                [NoOut EXCEPT !.op = "return2", !.w = out[t].w]) :
         Apply(t, r)

\* ------------------------------------------------------------ QueuePool.dispose
\* Lines 739-749, one turn of the loop: pop and dispose a wrapper, or find the
\* queue empty, set the overflow counter and emit pool_disposed.
DisposeTurn(h, o, tlv) ==
    IF QEmpty(h.q)
    THEN Ended([h EXCEPT !.overflow = 0 - size],
               [o EXCEPT !.res = "ok", !.evs = Append(@, "pool_disposed")], tlv)
    ELSE LET c  == Head(h.q)
             r  == _checkout(h.st[c])
             d  == _dispose_wrapper(r.st)
             h1 == [h EXCEPT !.q = Tail(@), !.st[c] = r.st]
             o1 == [o EXCEPT !.att = Append(@, Tried("_checkout", c, h.st[c], r))]
             o2 == [o1 EXCEPT !.att = Append(@, Tried("_dispose_wrapper", c, r.st, d))] IN
         IF r.err
         THEN Ended(h1, [o1 EXCEPT !.res = "InvalidRequestError"], tlv)
         ELSE IF d.err
         THEN Ended(h1, [o2 EXCEPT !.res = "InvalidRequestError"], tlv)
         ELSE Oc([h1 EXCEPT !.st[c] = d.st, !.ncl[h.tp[c]] = @ + 1,
                            !.wcl[c] = @ + 1], "d_loop",
                 [o2 EXCEPT !.evs = Append(@, "connection_disposed")], tlv, "app")

Dispose(t) ==
    /\ pc[t] = "idle"
    /\ ndisp < MaxDisposes
    /\ CanCall(t)
    /\ Apply(t, DisposeTurn([Called(t, "dispose") EXCEPT !.ndisp = @ + 1],
                            [NoOut EXCEPT !.op = "dispose"], tl[t]))

DisposeLoop(t) ==
    /\ pc[t] = "d_loop"
    /\ Apply(t, DisposeTurn(Heap, out[t], tl[t]))

\* ------------------------------------------------------------ the application
\* How the get() that has just ended came by its wrapper.
Served(o) ==
    IF o.res # "ok" THEN "none"
    ELSE IF \E i \in 1..Len(o.att) : o.att[i][1] = "_checkout" THEN "queue"
    ELSE IF \E i \in 1..Len(o.evs) : o.evs[i] = "connection_created" THEN "created"
    ELSE "cached"

\* The caller takes the result of its call: the wrapper get() returned is the
\* one it holds from now on; a wrapper passed to return_conn is let go.
Ack(t) ==
    /\ pc[t] = "ret"
    /\ Commit(t, [Heap EXCEPT !.mark[t] = IF out[t].op = "get" /\ @.set
                                          THEN [@ EXCEPT !.src = Served(out[t])]
                                          ELSE NoMark],
              "idle", NoOut, tl[t], "app",
              IF out[t].op = "get" /\ out[t].res = "ok" THEN out[t].w
              ELSE IF out[t].op \in {"return", "return2"} THEN 0
              ELSE held[t])

\* The collector frees a wrapper that only the thread's weak reference
\* (line 735) still names.
Collect(t) ==
    /\ tl[t].k = "ref"
    /\ tl[t].live
    /\ tl[t].w \notin Roots
    /\ Commit(t, Heap, pc[t], out[t], TLDead, caller[t], held[t])

\* ------------------------------------------------------------ specification
\* One idle slot with overflow off and on, prefilled or not; the same in
\* thread-local mode with overflow on; two idle slots.
Configs ==
    {Config(1, mo, pf, FALSE, 1, 1) : mo \in {0, 1}, pf \in BOOLEAN}
    \cup {Config(1, 1, TRUE, TRUE, 1, 1), Config(2, 0, FALSE, FALSE, 1, 1)}

Init == \E c \in Configs : InitWith(c)

\* A thread-local pool on two servers, a pool without retries, and pools
\* asked for unlimited overflow, with and without assertions.
DeepConfigs ==
    {OnServers(Config(1, 1, TRUE, TRUE, 1, 1), NumServers),
     Config(1, 1, TRUE, FALSE, 0, 1),
     Config(1, 0 - 1, TRUE, FALSE, 1, 1),
     Optimized(Config(1, 0 - 1, TRUE, FALSE, 1, 1))}

InitDeep == \E c \in DeepConfigs : InitWith(c)

Next ==
    \E t \in Threads :
        \/ Get(t)
        \/ GetLock(t)
        \/ GetWaitPop(t)
        \/ GetTimeout(t)
        \/ GetMiss(t)
        \/ GetCreate(t)
        \/ Rpc(t)
        \/ RpcRetry(t)
        \/ ReturnConn(t)
        \/ ReturnDec(t)
        \/ ReturnAgain(t)
        \/ Dispose(t)
        \/ DisposeLoop(t)
        \/ Ack(t)
        \/ Collect(t)

Spec == Init /\ [][Next]_vars

SpecDeep == InitDeep /\ [][Next]_vars

\* ------------------------------------------------------------ scheduling
\* The steps a thread takes inside a call it has started.
Step(t) ==
    \/ GetLock(t)
    \/ GetWaitPop(t)
    \/ GetTimeout(t)
    \/ GetMiss(t)
    \/ GetCreate(t)
    \/ RpcRetry(t)
    \/ ReturnDec(t)
    \/ DisposeLoop(t)

\* A thread inside a call is scheduled again, a lock that stays free is taken
\* by the thread that waits for it, and self._q.get(True, pool_timeout) returns
\* or raises Empty after pool_timeout.
Fairness == \A t \in Threads : WF_vars(Step(t))

\* The thread-local pool with overflow.
LiveConfigs == {Config(1, 1, TRUE, TRUE, 1, 1)}

InitLive == \E c \in LiveConfigs : InitWith(c)

SpecLive == InitLive /\ [][Next]_vars /\ Fairness

\* ------------------------------------------------------------ the server rotor
\* Lines 127-129: the exchange of entries i and j of list l.
Swap_lost(l, i, j) == [l EXCEPT ![j] = l[i]]

Swap(l, i, j) == [l EXCEPT ![i] = l[j], ![j] = l[i]]

\* Lines 124-129: the lists the loop can leave, from index i on; j is
\* random.randint(i, n-1).
RECURSIVE ShuffleFrom(_, _)
ShuffleFrom(l, i) ==
    IF i > Len(l) THEN {l}
    ELSE UNION {ShuffleFrom(Swap(l, i, j), i + 1) : j \in i..Len(l)}

Shuffle(l) == ShuffleFrom(l, 1)

\* Server names, and the lists an application passes.
ServerNames == {"a", "b", "c"}

ServerLists == UNION {[1..n -> ServerNames] : n \in 0..MaxListLen}

\* What the rotor actions leave alone.
pool_vars == <<q, overflow, olock, st, opc, rc, tp, ncl, wcl, server, peer,
               ndisp, ncalls, tl, pc, held, caller, out, mark>>

\* Lines 105-132.  The list is assigned before its length is asserted.
set_server_list(l) ==
    /\ given' = l
    /\ served' = <<>>
    /\ cfg' = OnServers(cfg, Len(l))
    /\ IF Len(l) > 0
       THEN /\ server_list' \in Shuffle(l)
            /\ lpos' = 0
            /\ rres' = "ok"
       ELSE /\ server_list' = l
            /\ lpos' = lpos
            /\ rres' = "AssertionError"
    /\ UNCHANGED pool_vars

SetServerList == \E l \in ServerLists : set_server_list(l)

\* Lines 134-143.
_get_next_server ==
    /\ lpos < MaxRotorCalls
    /\ IF Len(server_list) = 0
       THEN /\ rres' = "ZeroDivisionError"
            /\ UNCHANGED <<lpos, served>>
       ELSE /\ rres' = "ok"
            /\ served' = Append(served, server_list[(lpos % Len(server_list)) + 1])
            /\ lpos' = lpos + 1
    /\ UNCHANGED <<cfg, given, server_list>>
    /\ UNCHANGED pool_vars

\* A pool under construction is given a list, which must not be empty.
InitRotor ==
    \E l \in ServerLists \ {<<>>} :
        /\ InitPool(OnServers(Config(1, 0, FALSE, FALSE, 1, 1), Len(l)))
        /\ \E m \in Shuffle(l) : Installed(l, m)

NextRotor == SetServerList \/ _get_next_server

SpecRotor == InitRotor /\ [][NextRotor]_vars

\* ================================================================ properties
Range(f) == {f[i] : i \in DOMAIN f}
PoolMax == cfg.pool_size + cfg.max_overflow

\* ---------------------------------------------------------------- C1
\* The calls of the state machine thread t makes in this step.
NewTried(t) ==
    IF out'[t].op = out[t].op /\ Len(out'[t].att) >= Len(out[t].att)
    THEN SubSeq(out'[t].att, Len(out[t].att) + 1, Len(out'[t].att))
    ELSE out'[t].att

\* The state of wrapper w after the calls es, made in this order from state s;
\* "?" if one of them finds w in another state than the calls before it left.
RECURSIVE Replay(_, _, _)
Replay(es, w, s) ==
    IF es = <<>> THEN s
    ELSE LET e == Head(es) IN
         IF e[2] # w THEN Replay(Tail(es), w, s)
         ELSE IF e[3] # s THEN "?"
         ELSE Replay(Tail(es), w, e[4])

LegalFrom(name) ==
    CASE name = "_checkin" -> {CHECKED_OUT}
      [] name = "_checkout" -> {IN_QUEUE}
      [] name = "_dispose_wrapper" -> {CHECKED_OUT, IN_QUEUE}
      [] OTHER -> {}

Target(name) ==
    CASE name = "_checkin" -> IN_QUEUE
      [] name = "_checkout" -> CHECKED_OUT
      [] OTHER -> DISPOSED

\* One call <<name, w, from, to, raised>>: legal and done, or refused.
Guarded(e) ==
    IF e[3] \in LegalFrom(e[1]) THEN ~e[5] /\ e[4] = Target(e[1])
                                ELSE e[5] /\ e[4] = e[3]

C1_Step ==
    /\ \A w \in WIds :
         \E t \in Threads :
            Replay(NewTried(t), w,
                   IF st[w] = NOT_CREATED /\ st'[w] # NOT_CREATED
                   THEN CHECKED_OUT ELSE st[w]) = st'[w]
    /\ \A t \in Threads :
         /\ \A e \in Range(out'[t].att) : Guarded(e)
         /\ (\E e \in Range(out'[t].att) : e[5])
               <=> out'[t].res = "InvalidRequestError"

\* C1: in every step, every change of a wrapper's state is the effect of the
\* checkin, checkout and dispose calls made in that step, each from a state it
\* is legal in (CHECKED_OUT -> IN_QUEUE, IN_QUEUE -> CHECKED_OUT,
\* {CHECKED_OUT, IN_QUEUE} -> DISPOSED; a new wrapper starts CHECKED_OUT); and
\* every such call made from another state raises InvalidRequestError and
\* leaves the state as it was.
C1_Transitions == [][C1_Step]_vars

\* A second return_conn() tried to check in a wrapper that is IN_QUEUE and was
\* refused.
C1_IllegalCheckinRefused ==
    \E t \in Threads, w \in WIds :
        /\ out[t].op = "return2"
        /\ out[t].res = "InvalidRequestError"
        /\ <<"_checkin", w, IN_QUEUE, IN_QUEUE, TRUE>> \in Range(out[t].att)
        /\ st[w] = IN_QUEUE

\* ---------------------------------------------------------------- C2
\* C2: in every reachable state the number of wrappers handed out by get() and
\* not yet returned is at most pool_size + max_overflow.
C2_HandedOutBound == Cardinality(HandedOut) <= PoolMax

\* ---------------------------------------------------------------- C3
\* C3: in every reachable state overflow <= max_overflow.
C3_OverflowBound == overflow <= cfg.max_overflow

\* ---------------------------------------------------------------- C4
\* C4: in every reachable state 0 <= checkedin() <= pool_size.
C4_IdleDepth == 0 <= checkedin /\ checkedin <= size

\* A return_conn() found the queue full, disposed of its wrapper, and the queue
\* is still full.
C4_ReturnFoundQueueFull ==
    \E t \in Threads :
        /\ pc[t] = "ret" /\ out[t].op = "return" /\ out[t].res = "ok"
        /\ "connection_disposed" \in Range(out[t].evs)
        /\ "connection_recycled" \notin Range(out[t].evs)
        /\ checkedin = size

\* ---------------------------------------------------------------- C5
\* C5: a get() by a thread that holds no wrapper, begun with pool_size +
\* max_overflow wrappers handed out and with no other call made before it ends,
\* emits pool_at_max and nothing else, fails with NoConnectionAvailable, leaves
\* the queue depth and the overflow counter as they were and the overflow lock
\* free.
C5_AtMaxGetFails ==
    \A t \in Threads :
        (/\ pc[t] = "ret" /\ out[t].op = "get" /\ held[t] = 0
         /\ mark[t].set /\ mark[t].nout = PoolMax)
        => /\ out[t].res = "NoConnectionAvailable"
           /\ out[t].evs = <<"pool_at_max">>
           /\ checkedin = mark[t].ci
           /\ overflow = mark[t].ov
           /\ olock = ""

\* ---------------------------------------------------------------- C6
\* A get() of thread t has just returned a wrapper.
GotWrapper(t) == pc[t] = "ret" /\ out[t].op = "get" /\ out[t].res = "ok"

\* C6: every wrapper in the idle queue is IN_QUEUE, and every wrapper get() has
\* just returned (popped, created or cached) is CHECKED_OUT.
C6_StateAgreesWithPlace ==
    /\ \A i \in 1..Len(q) : st[q[i]] = IN_QUEUE
    /\ \A t \in Threads : GotWrapper(t) => st[out[t].w] = CHECKED_OUT

\* get() has popped a wrapper that had been checked in before, and another
\* wrapper is idle in the queue.
C6_PoppedAndIdle ==
    \E t \in Threads :
        /\ GotWrapper(t)
        /\ Served(out[t]) = "queue"
        /\ q # <<>>
        /\ ncalls >= 3

\* ---------------------------------------------------------------- C7
\* A return_conn() of thread t has just ended normally without recycling, and
\* since the thread's get() before it began (with no other thread inside a
\* call) nothing else was called.
RoundTrip(t) ==
    /\ pc[t] = "ret" /\ out[t].op = "return" /\ out[t].res = "ok"
    /\ mark[t].set
    /\ "connection_recycled" \notin Range(out[t].evs)

\* C7 as claimed: get() then return_conn() leaves checkedin() and overflow()
\* as they were before the get().
C7_RoundTrip ==
    \A t \in Threads :
        RoundTrip(t) => checkedin = mark[t].ci /\ overflow = mark[t].ov

\* C7 as amended: they are as before when get() took the wrapper from the idle
\* queue; both are one higher when get() created it; checkedout() is as
\* before in both cases.
C7_RoundTripAmended ==
    \A t \in Threads :
        RoundTrip(t) =>
            /\ mark[t].src = "queue" => checkedin = mark[t].ci /\ overflow = mark[t].ov
            /\ mark[t].src = "created" =>
                   checkedin = mark[t].ci + 1 /\ overflow = mark[t].ov + 1
            /\ mark[t].src \in {"queue", "created"} =>
                   checkedout = size - mark[t].ci + mark[t].ov

\* A round trip whose get() popped its wrapper from the idle queue is over, in
\* a pool whose overflow counter has reached 0.
C7_RoundTripDone ==
    \E t \in Threads : RoundTrip(t) /\ mark[t].src = "queue" /\ overflow = 0

\* ---------------------------------------------------------------- C8
\* C8: in thread-local mode a get() of a thread that has got a wrapper and not
\* returned it returns that wrapper, without a queue operation or an event.
C8_SameWrapper ==
    \A t \in Threads :
        (cfg.use_threadlocal /\ pc[t] = "ret" /\ out[t].op = "get" /\ held[t] # 0)
        => /\ out[t].res = "ok"
           /\ out[t].w = held[t]
           /\ out[t].evs = <<>>
           /\ out[t].att = <<>>

\* ---------------------------------------------------------------- C9
\* Thread t's second return_conn() of the wrapper it has just returned ends in
\* this step.
SecondReturn(t) == out[t].op = "return" /\ out'[t].op = "return2"

Refused(t) ==
    /\ out'[t].res = "InvalidRequestError"
    /\ "connection_checked_in" \notin Range(out'[t].evs)
    /\ q' = q
    /\ overflow' = overflow

\* C9 as claimed: the second return_conn(w) raises InvalidRequestError, emits
\* no connection_checked_in and leaves the queue and the overflow counter.
C9_DoubleReturn == [][\A t \in Threads : SecondReturn(t) => Refused(t)]_vars

\* C9 as amended: so it is without thread-local mode, for a wrapper that is not
\* due for recycling and has not been handed out again; in thread-local mode
\* the second return_conn() does nothing and raises nothing.
C9_DoubleReturnAmended ==
    [][\A t \in Threads :
          SecondReturn(t) =>
             IF cfg.use_threadlocal
             THEN /\ out'[t].res = "ok" /\ out'[t].evs = <<>>
                  /\ q' = q /\ overflow' = overflow /\ st' = st
             ELSE opc[out[t].w] <= cfg.recycle => Refused(t)]_vars

\* Without thread-local mode a second return_conn() met the full queue and was
\* refused.
C9_SecondReturnRefused ==
    \E t \in Threads :
        /\ ~cfg.use_threadlocal
        /\ out[t].op = "return2" /\ out[t].res = "InvalidRequestError"
        /\ \E e \in Range(out[t].att) : e[1] = "_in_queue"

\* ---------------------------------------------------------------- C10
NFailedEvents(evs) == Count(evs, RpcFailed) + Count(evs, ConnectFailed)

\* An RPC of thread t has ended in which the transport raised a transient
\* error once and the pool supplied a wrapper for the failover.
FailedOnce(t) ==
    /\ pc[t] = "ret" /\ out[t].op = "rpc" /\ out[t].fails = 1
    /\ out[t].res \notin {"NoConnectionAvailable", "AllServersUnavailable"}

\* C10 as claimed: the call returns the result and connection_failed was
\* emitted exactly once.
C10_Failover ==
    \A t \in Threads :
        FailedOnce(t) => out[t].res = "ok" /\ NFailedEvents(out[t].evs) = 1

\* C10 as amended: if the wrapper's retry count was below max_retries when the
\* call began, the call returns the result; connection_failed was emitted once
\* for the failed attempt, and apart from that only for failed connects.
C10_FailoverAmended ==
    \A t \in Threads :
        (FailedOnce(t) /\ rc[out[t].w] - out[t].fails < cfg.max_retries)
        => /\ out[t].res = "ok"
           /\ Count(out[t].evs, RpcFailed) = 1
           /\ out[t].evs[1] = RpcFailed
           /\ (Count(out[t].evs, ConnectFailed) = 0
                 => NFailedEvents(out[t].evs) = 1)

\* An RPC failed over once and returned, with no failed connect on the way.
C10_FailedOverOnce ==
    \E t \in Threads :
        /\ FailedOnce(t) /\ out[t].res = "ok"
        /\ rc[out[t].w] = 1
        /\ NFailedEvents(out[t].evs) = 1

\* ---------------------------------------------------------------- C11
\* C11: the server every existing wrapper reports as bound is the server its
\* current transport is connected to, also after a failover has given the
\* wrapper the transport of another one.
C11_BoundServer ==
    \A w \in WIds : st[w] # NOT_CREATED => server[w] = peer[tp[w]]

\* ---------------------------------------------------------------- C12
\* An RPC of thread t has ended in which every attempt raised a transient
\* error, every re-checkout from the pool succeeded, and the wrapper's retry
\* count was 0 when the call began.
AllAttemptsFailed(t) ==
    /\ pc[t] = "ret" /\ out[t].op = "rpc"
    /\ out[t].res \notin {"ok", "NoConnectionAvailable", "AllServersUnavailable",
                          "InvalidRequestError"}
    /\ rc[out[t].w] = out[t].fails

\* C12 as claimed: the call fails with MaximumRetry after max_retries + 1
\* attempts and max_retries + 1 connection_failed events.
C12_RetryCeiling ==
    \A t \in Threads :
        AllAttemptsFailed(t)
        => /\ out[t].res = "MaximumRetryException"
           /\ out[t].fails = cfg.max_retries + 1
           /\ NFailedEvents(out[t].evs) = cfg.max_retries + 1

\* C12 as amended: MaximumRetry after max_retries + 1 attempts, each of which
\* emitted connection_failed once; any further connection_failed is that of a
\* connect attempt that failed during a failover, of which there are at most
\* 2 * len(server_list) - 1 for each connection created.
C12_RetryCeilingAmended ==
    \A t \in Threads :
        AllAttemptsFailed(t)
        => /\ out[t].res = "MaximumRetryException"
           /\ out[t].fails = cfg.max_retries + 1
           /\ Count(out[t].evs, RpcFailed) = cfg.max_retries + 1
           /\ Count(out[t].evs, ConnectFailed)
                 <= cfg.max_retries * (MaxAttempts - 1) * 2

\* The ceiling was hit after one failover that needed no second connect attempt.
C12_CeilingAfterFailover ==
    \E t \in Threads :
        /\ AllAttemptsFailed(t) /\ out[t].res = "MaximumRetryException"
        /\ cfg.max_retries = 1 /\ out[t].fails = 2
        /\ NFailedEvents(out[t].evs) = 2

\* ---------------------------------------------------------------- C13
\* Thread t calls return_conn() in this step, on the CHECKED_OUT wrapper it
\* holds, and the pool did not fail to connect.
ReturnStep(t) ==
    /\ pc[t] = "idle" /\ out'[t].op = "return"
    /\ st[held[t]] = CHECKED_OUT
    /\ cfg.use_threadlocal => tl[t] = TLRef(held[t], TRUE)
    /\ out'[t].res # "AllServersUnavailable"

InQAfter(w) == \E i \in 1..Len(q') : q'[i] = w

\* C13: a returned wrapper with op_count <= recycle is not recycled, and is
\* back in the idle queue unless the queue was full; one with op_count >
\* recycle is replaced: connection_recycled is emitted, the old wrapper ends
\* DISPOSED and out of the queue, and a wrapper created in this step is in the
\* queue.  No wrapper in the queue has op_count > recycle.
C13_Recycle ==
    [][\A t \in Threads :
          ReturnStep(t) =>
            LET w == held[t] IN
            /\ opc[w] <= cfg.recycle =>
                  /\ "connection_recycled" \notin Range(out'[t].evs)
                  /\ InQAfter(w) \/ QFull(q)
            /\ opc[w] > cfg.recycle =>
                  /\ "connection_recycled" \in Range(out'[t].evs)
                  /\ st'[w] = DISPOSED
                  /\ ~InQAfter(w)
                  /\ \E n \in WIds : st[n] = NOT_CREATED /\ InQAfter(n)
            /\ \A i \in 1..Len(q') : opc'[q'[i]] <= cfg.recycle]_vars

\* ---------------------------------------------------------------- C14
\* C14: a return_conn() of a CHECKED_OUT wrapper that finds the idle queue full
\* does not raise, leaves the wrapper DISPOSED, leaves no wrapper it created
\* checked out, and lowers the overflow counter by exactly 1: in the same step
\* when the pool has no overflow lock, in the step that holds the lock
\* otherwise.
C14_CheckinIntoFullQueue ==
    [][\A t \in Threads :
          /\ (ReturnStep(t) /\ QFull(q)) =>
                /\ out'[t].res \in {"ok", "none"}
                /\ st'[held[t]] = DISPOSED
                /\ \A n \in WIds : st[n] = NOT_CREATED => st'[n] # CHECKED_OUT
                /\ IF HasLock THEN pc'[t] = "r_dec" /\ overflow' = overflow
                   ELSE overflow' = overflow - 1
          /\ (pc[t] = "r_dec" /\ pc'[t] # "r_dec") =>
                olock = "" /\ overflow' = overflow - 1 /\ out'[t].res = "ok"]_vars

\* ---------------------------------------------------------------- C15
\* C15: close() has been invoked at most once through any one wrapper, and the
\* transport a DISPOSED wrapper uses has been closed exactly once.
C15_ClosedOnce ==
    \A w \in WIds :
        /\ wcl[w] <= 1
        /\ st[w] = DISPOSED => ncl[tp[w]] = 1

\* ---------------------------------------------------------------- C16
\* Thread t takes a turn of the loop of dispose() in this step.
DisposeStep(t) ==
    \/ pc[t] = "idle" /\ out'[t].op = "dispose"
    \/ pc[t] = "d_loop" /\ out'[t] # out[t]

\* C16: every turn of dispose() that finds a wrapper in the idle queue pops it,
\* leaves it DISPOSED and closes its transport once; the turn that finds the
\* queue empty ends the call: the queue is empty, overflow is -pool_size and
\* pool_disposed has been emitted exactly once, at the end.  No turn changes
\* the state of another wrapper, and a CHECKED_OUT wrapper the application
\* holds keeps its state and its transport, which the turn does not close.
C16_Dispose ==
    [][\A t \in Threads :
          DisposeStep(t) =>
            /\ IF q = <<>>
               THEN /\ pc'[t] = "ret" /\ out'[t].res = "ok"
                    /\ q' = <<>>
                    /\ overflow' = 0 - cfg.pool_size
                    /\ Count(out'[t].evs, "pool_disposed") = 1
                    /\ st' = st
               ELSE /\ pc'[t] = "d_loop"
                    /\ q' = Tail(q)
                    /\ st[Head(q)] = IN_QUEUE /\ st'[Head(q)] = DISPOSED
                    /\ ncl'[tp[Head(q)]] = ncl[tp[Head(q)]] + 1
                    /\ Count(out'[t].evs, "pool_disposed") = 0
                    /\ \A w \in WIds \ {Head(q)} : st'[w] = st[w]
            /\ \A w \in HandedOut :
                  st'[w] = CHECKED_OUT /\ tp'[w] = tp[w] /\ ncl'[tp[w]] = ncl[tp[w]]]_vars

\* ---------------------------------------------------------------- C17
\* A get() of the first pool_size calls made on a pool built with prefill
\* false has ended in thread t.
EarlyGetEnded(t) ==
    /\ ~cfg.prefill
    /\ ncalls <= cfg.pool_size
    /\ pc[t] = "ret" /\ out[t].op = "get"

\* C17: right after construction checkedout() = 0, and checkedin() =
\* pool_size, overflow() = 0 with prefill true, checkedin() = 0, overflow() =
\* -pool_size with prefill false.  A get() of the first pool_size calls on a
\* pool built with prefill false is never refused for want of a connection:
\* it returns a wrapper it created, unless no server accepts the connection.
C17_InitialAccounting ==
    /\ (ncalls = 0 /\ Constructed) =>
          /\ checkedout = 0
          /\ IF cfg.prefill
             THEN checkedin = cfg.pool_size /\ overflow = 0
             ELSE checkedin = 0 /\ overflow = 0 - cfg.pool_size
    /\ \A t \in Threads :
          EarlyGetEnded(t) =>
             /\ out[t].res \in {"ok", "AllServersUnavailable"}
             /\ out[t].res = "ok" => Served(out[t]) = "created"
             /\ "pool_at_max" \notin Range(out[t].evs)

\* The second of two such get() calls has returned a wrapper, and both
\* wrappers are out.
C17_SecondEarlyGetCreated ==
    \E t \in Threads :
        /\ EarlyGetEnded(t)
        /\ cfg.pool_size = 2 /\ ncalls = 2
        /\ out[t].res = "ok" /\ Served(out[t]) = "created"
        /\ Cardinality(HandedOut) = 2

\* ---------------------------------------------------------------- C18
\* The connect attempts that failed in the _create_connection calls cc.
RECURSIVE FailedAttempts(_)
FailedAttempts(cc) ==
    IF cc = <<>> THEN 0
    ELSE Len(Head(cc).srvs) - (IF Head(cc).ok THEN 1 ELSE 0)
           + FailedAttempts(Tail(cc))

\* The servers c.srvs that one _create_connection call tried come from the
\* rotor in order, are at most 2 * len(server_list), and are every server
\* exactly twice when the call raised AllServersUnavailable.
ByTheRotor(c) ==
    /\ Len(c.srvs) \in 1..(2 * cfg.servers)
    /\ \A i \in 1..(Len(c.srvs) - 1) : c.srvs[i + 1] = (c.srvs[i] + 1) % cfg.servers
    /\ ~c.ok =>
          /\ Len(c.srvs) = 2 * cfg.servers
          /\ \A s \in 0..(cfg.servers - 1) : Count(c.srvs, s) = 2

\* C18: every _create_connection call made during a call of thread t tried at
\* most 2 * len(server_list) servers, in rotor order; connection_failed was
\* emitted for a failed connect once per failed attempt; the call ended in
\* AllServersUnavailable exactly if its last _create_connection failed all
\* 2 * len(server_list) attempts, each server tried twice; and a get() that
\* returns a wrapper it created returns it CHECKED_OUT.
C18_CreateConnection ==
    \A t \in Threads :
        LET cc == out[t].cc IN
        /\ \A i \in 1..Len(cc) : ByTheRotor(cc[i])
        /\ \A i \in 1..(Len(cc) - 1) : cc[i].ok
        /\ Count(out[t].evs, ConnectFailed) = FailedAttempts(cc)
        /\ pc[t] = "ret" =>
              (out[t].res = "AllServersUnavailable"
                 <=> (cc # <<>> /\ ~cc[Len(cc)].ok))
        /\ (pc[t] = "ret" /\ out[t].op = "get" /\ Served(out[t]) = "created") =>
              st[out[t].w] = CHECKED_OUT

\* A call on a pool of NumServers servers has ended in AllServersUnavailable
\* after one connection was created and the next could not be.
C18_AllServersTriedTwice ==
    \E t \in Threads :
        /\ cfg.servers = NumServers
        /\ pc[t] = "ret" /\ out[t].res = "AllServersUnavailable"
        /\ Len(out[t].cc) = 2
        /\ Count(out[t].evs, ConnectFailed) = 2 * NumServers

\* ---------------------------------------------------------------- C19
\* C19: a pool asked for max_overflow = -1 is constructed, and in it no get()
\* waits on the idle queue and none ends in NoConnectionAvailable or emits
\* pool_at_max.
C19_UnlimitedOverflow ==
    cfg.max_overflow = 0 - 1 =>
        /\ Constructed
        /\ \A t \in Threads :
              /\ pc[t] # "g_wait"
              /\ out[t].res # "NoConnectionAvailable"
              /\ "pool_at_max" \notin Range(out[t].evs)

\* ---------------------------------------------------------------- C20
\* Lines 771-977: the ten hooks class PoolListener documents.
Hooks ==
    {"connection_created", "connection_checked_out", "connection_checked_in",
     "connection_disposed", "connection_recycled", "connection_failed",
     "server_list_obtained", "pool_recreated", "pool_disposed", "pool_at_max"}

\* The hook an emitted event belongs to.
HookOf(e) == IF e = ConnectFailed THEN "connection_failed" ELSE e

\* Lines 223-242 and 285: the attribute add_listener looks for, and the
\* notifier calls, for the subscribers of hook e.
SlotAttr(e) == IF e = "server_list_obtained" THEN "obtained_server_list" ELSE e

\* A listener is the set of method names it has.  Lines 222-242: the hooks in
\* whose subscriber list add_listener puts listener l.
add_listener(l) == {e \in Hooks : SlotAttr(e) \in l}

\* Lines 244-335: the events of evs the notifiers deliver to listener l, in
\* order.
RECURSIVE Delivered(_, _)
Delivered(l, evs) ==
    IF evs = <<>> THEN <<>>
    ELSE (IF HookOf(Head(evs)) \in add_listener(l) THEN <<Head(evs)>> ELSE <<>>)
           \o Delivered(l, Tail(evs))

\* The events of evs whose hook listener l implements.
RECURSIVE Implemented(_, _)
Implemented(l, evs) ==
    IF evs = <<>> THEN <<>>
    ELSE (IF HookOf(Head(evs)) \in l THEN <<Head(evs)>> ELSE <<>>)
           \o Implemented(l, Tail(evs))

\* Lines 98-101, 131-132, 618-620: the events of the construction of the pool,
\* whose listeners are registered before the server list is set.
ConstructionEvents ==
    IF ~Constructed THEN <<>>
    ELSE <<"server_list_obtained">>
           \o [i \in 1..(IF cfg.prefill THEN cfg.pool_size ELSE 0) |->
                 "connection_created"]

\* Listeners passed to the constructor: one without hooks, a subclass of
\* PoolListener, one for connection_failed only, one with a method named as
\* add_listener expects it.
Listeners ==
    {{}, Hooks, {"connection_failed"}, {"obtained_server_list"}}

\* C20: every registered listener has been delivered, of the events of the
\* construction and of every call, exactly those whose hook it implements,
\* once each and in the order they were produced.
C20_FanOut ==
    \A l \in Listeners :
        /\ Delivered(l, ConstructionEvents) = Implemented(l, ConstructionEvents)
        /\ \A t \in Threads :
              Delivered(l, out[t].evs) = Implemented(l, out[t].evs)

\* ---------------------------------------------------------------- C21
\* The return_conn() call recorded in o gave a wrapper back to the pool: it
\* checked a wrapper in or disposed one, and raised nothing.
GaveBack(o) ==
    /\ o.res = "ok"
    /\ \E i \in 1..Len(o.att) :
          o.att[i][1] \in {"_checkin", "_dispose_wrapper"} /\ ~o.att[i][5]

\* C21: a return_conn() that has ended and gave a wrapper back (re-enqueued,
\* recycled or disposed because the queue was full) has emitted
\* connection_checked_in exactly once; one that raised, did nothing or has not
\* ended has not emitted it.
C21_CheckedInOnce ==
    \A t \in Threads :
        out[t].op \in {"return", "return2"} =>
            Count(out[t].evs, "connection_checked_in")
              = IF pc[t] = "ret" /\ GaveBack(out[t]) THEN 1 ELSE 0

\* A return_conn() that found the queue full has disposed the wrapper and
\* ended, in a pool with an overflow lock.
C21_DisposedAndCheckedIn ==
    \E t \in Threads :
        /\ pc[t] = "ret" /\ out[t].op = "return" /\ GaveBack(out[t])
        /\ HasLock
        /\ "connection_disposed" \in Range(out[t].evs)
        /\ "connection_recycled" \notin Range(out[t].evs)
        /\ Count(out[t].evs, "connection_checked_in") = 1

\* ---------------------------------------------------------------- C22
\* List m holds the entries of list l, each as often.
PermutationOf(m, l) ==
    /\ Len(m) = Len(l)
    /\ \A x \in Range(m) \cup Range(l) : Count(m, x) = Count(l, x)

\* C22: the installed list is a permutation of the list given; the k-th call
\* of _get_next_server after set_server_list (k from 0) returned
\* server_list[k mod n]; any n consecutive calls returned every entry of the
\* installed list once; and set_server_list of an empty list fails.
C22_Rotor ==
    LET n == Len(server_list) IN
    /\ PermutationOf(server_list, given)
    /\ \A k \in 1..Len(served) : served[k] = server_list[((k - 1) % n) + 1]
    /\ \A k \in 0..(Len(served) - n) :
          n > 0 => PermutationOf(SubSeq(served, k + 1, k + n), server_list)
    /\ given # <<>> => Len(served) = lpos
    /\ given = <<>> <=> rres \in {"AssertionError", "ZeroDivisionError"}

\* A list of three servers was installed in another order than given, and the
\* rotor has gone round it more than once.
C22_RotorWentRound ==
    /\ Len(given) = 3 /\ Cardinality(Range(given)) = 3
    /\ server_list # given
    /\ Len(served) > 3

\* ---------------------------------------------------------------- C23
\* Thread t calls return_conn() in this step.
ReturnCalled(t) ==
    /\ out[t].op # out'[t].op \/ pc[t] = "idle"
    /\ out'[t].op \in {"return", "return2"}
    /\ pc[t] \in {"idle", "ret"}

\* C23: in thread-local mode a return_conn() leaves the thread's slot empty,
\* and one made while the slot is empty (the thread has returned its wrapper
\* and not called get() since) raises nothing, emits nothing and leaves the
\* idle queue, the overflow counter and every wrapper's state as they were.
C23_RepeatedReturn ==
    [][\A t \in Threads :
          (cfg.use_threadlocal /\ ReturnCalled(t)) =>
             /\ tl'[t].k # "ref"
             /\ tl[t].k # "ref" =>
                   /\ pc'[t] = "ret" /\ out'[t].res = "ok"
                   /\ out'[t].evs = <<>>
                   /\ q' = q /\ overflow' = overflow /\ st' = st
             /\ out'[t].op = "return2" => tl[t].k # "ref"]_vars

\* A thread has returned its wrapper, which is in the idle queue, and has
\* called return_conn() again.
C23_ReturnedTwice ==
    \E t \in Threads :
        /\ cfg.use_threadlocal
        /\ pc[t] = "ret" /\ out[t].op = "return2" /\ out[t].res = "ok"
        /\ st[out[t].w] = IN_QUEUE

\* ---------------------------------------------------------------- C24
\* An attempt of the retriable RPC of thread t fails in this step.
AttemptFailed(t) ==
    /\ out'[t].op = "rpc"
    /\ out'[t].fails = (IF pc[t] = "idle" THEN 0 ELSE out[t].fails) + 1

\* A wrapper's retry count goes up by one with every failed attempt of an RPC
\* made on it, and changes otherwise only to 0, in a step that calls
\* return_conn().
RetryCountSteps ==
    /\ \A t \in Threads :
          AttemptFailed(t) => rc'[held[t]] = rc[held[t]] + 1
    /\ \A w \in WIds :
          /\ rc'[w] > rc[w] =>
                /\ rc'[w] = rc[w] + 1
                /\ \E t \in Threads : held[t] = w /\ AttemptFailed(t)
          /\ rc'[w] < rc[w] =>
                /\ rc'[w] = 0
                /\ \E t \in Threads : ReturnCalled(t)

\* A retriable RPC has ended in MaximumRetryException exactly if an attempt
\* of it failed and the wrapper's retry count exceeds max_retries.
RaisedWhenExceeded ==
    \A t \in Threads :
        (pc[t] = "ret" /\ out[t].op = "rpc") =>
           (out[t].res = "MaximumRetryException"
              <=> (out[t].fails > 0 /\ rc[out[t].w] > cfg.max_retries))

\* C24: the retry count of a wrapper is reset only by a checkin and counts the
\* transient failures of all RPCs made on the wrapper since; an RPC raises
\* MaximumRetryException as soon as the count exceeds max_retries.
C24_RetryCountAccumulates == []RaisedWhenExceeded /\ [][RetryCountSteps]_vars

\* An RPC that failed once has raised MaximumRetryException in a pool with
\* max_retries = 1: the other failure was in an earlier RPC of the checkout.
C24_RaisedOnFirstFailure ==
    \E t \in Threads :
        /\ pc[t] = "ret" /\ out[t].op = "rpc"
        /\ out[t].res = "MaximumRetryException"
        /\ cfg.max_retries = 1 /\ out[t].fails = 1 /\ rc[out[t].w] = 2

\* ---------------------------------------------------------------- C25
\* The get() of thread t ends in this step because no connection could be
\* created.
CreationFailed(t) ==
    /\ pc[t] = "g_create" /\ pc'[t] = "ret"
    /\ out'[t].res = "AllServersUnavailable"

\* C25: a get() that misses the idle queue leaves the queue and the overflow
\* counter alone until it creates a connection; if the creation fails the call
\* ends in AllServersUnavailable with the queue, the overflow counter and the
\* wrappers unchanged, no connection_checked_out emitted, the thread's slot as
\* it was and the overflow lock free.
C25_CreationFails ==
    [][\A t \in Threads :
          /\ (pc[t] \in {"g_lock", "g_wait", "g_miss"}
                /\ pc'[t] \in {"g_wait", "g_miss", "g_create"} \ {pc[t]}) =>
                q' = q /\ overflow' = overflow /\ tl'[t] = tl[t]
          /\ CreationFailed(t) =>
                /\ q' = q /\ overflow' = overflow /\ st' = st
                /\ "connection_checked_out" \notin Range(out'[t].evs)
                /\ tl'[t] = tl[t]
                /\ olock' = ""
                /\ HasLock => olock = t]_vars

\* A get() called by the application has ended in AllServersUnavailable in a
\* pool with an overflow lock, and the other thread has since been given a
\* wrapper by a get() of its own.
C25_LaterGetNotBlocked ==
    \E t \in Threads, u \in Threads :
        /\ HasLock
        /\ pc[t] = "ret" /\ out[t].op = "get"
        /\ out[t].res = "AllServersUnavailable"
        /\ u # t /\ pc[u] = "ret" /\ out[u].op = "get" /\ out[u].res = "ok"
        /\ Served(out[u]) = "created"

\* ---------------------------------------------------------------- C26
\* Thread t is inside a call of get(), return_conn(), dispose() or a
\* retriable RPC.
InCall(t) == pc[t] \notin {"idle", "ret"}

\* C26: every call a thread is inside of ends, and the overflow lock, once
\* taken, is released.
C26_NoUnboundedWait ==
    /\ \A t \in Threads : InCall(t) ~> ~InCall(t)
    /\ \A t \in Threads : (olock = t) ~> (olock = "")

\* A get() waits on the empty idle queue holding the overflow lock while the
\* other thread is inside a call that needs the lock.
C26_WaitingWithLock ==
    \E t \in Threads, u \in Threads :
        /\ pc[t] = "g_wait" /\ olock = t
        /\ pc[u] \in {"g_lock", "r_dec"}

\* ---------------------------------------------------------------- C27
\* C27: while no call is in progress, checkedout() is the number of wrappers
\* the callers hold, and so is not negative.
C27_CheckedOutCount ==
    (\A t \in Threads : pc[t] \in {"idle", "ret"}) =>
        /\ checkedout = Cardinality(HandedOut)
        /\ checkedout >= 0

\* ---------------------------------------------------------------- C28
\* Wrapper w is checked out and its last RPC ended after a failover: it failed
\* at least once since its last checkin (line 453) without exceeding
\* max_retries (lines 454-455), and the transport it closed (line 457) has been
\* replaced by an open one (line 434).
FailedOver(w) ==
    /\ w # 0
    /\ st[w] = CHECKED_OUT
    /\ rc[w] > 0 /\ ~Exceeded(rc[w])
    /\ wcl[w] > 0 /\ ncl[tp[w]] = 0

\* C28: a return_conn() of the wrapper the caller holds after an RPC that
\* failed over raises nothing (the pool being able to connect) and gives that
\* wrapper back: it leaves CHECKED_OUT for IN_QUEUE or DISPOSED, with
\* use_threadlocal true and false.
C28_HandleSurvivesFailover ==
    [][\A t \in Threads :
          (/\ pc[t] = "idle" /\ out'[t].op = "return"
           /\ FailedOver(held[t])
           /\ out'[t].res # "AllServersUnavailable") =>
             /\ out'[t].res \in {"ok", "none"}
             /\ st'[held[t]] \in {IN_QUEUE, DISPOSED}]_vars

\* ---------------------------------------------------------------- C29
\* C29: return_conn(c), c being the wrapper the caller holds, takes no wrapper
\* other than c out of CHECKED_OUT; in thread-local mode, when the calling
\* thread's slot does not name c, it leaves the idle queue, the overflow
\* counter and every wrapper's state as they were.
C29_ReturnsItsArgument ==
    [][\A t \in Threads :
          (pc[t] = "idle" /\ out'[t].op = "return") =>
             LET c == held[t] IN
             /\ \A w \in WIds \ {c} :
                   st[w] = CHECKED_OUT => st'[w] = CHECKED_OUT
             /\ (cfg.use_threadlocal /\ ~(tl[t].k = "ref" /\ tl[t].w = c)) =>
                   q' = q /\ overflow' = overflow /\ st' = st]_vars

====
